---- MODULE Spec2Model ----
(***************************************************************************)
(* Model of tooling/cli/src/mobile/init.rs: the mobile project            *)
(* initialization run `exec`, one action per step of its body.            *)
(*                                                                         *)
(* The outcomes of the external collaborators (configuration loader,      *)
(* filesystem, child processes, Android environment discovery, platform   *)
(* generators) are inputs of the step that calls them, drawn with \E.      *)
(***************************************************************************)
EXTENDS Naturals, Sequences, FiniteSets

\* Number of unrelated (user owned) keys the override file may hold.
NumForeignKeys == 1

\* Number of runs of exec made one after the other over the same filesystem.
MaxRuns == 2

\* Longest path text, in characters, given to a path helper.
MaxPathLen == 4

\* Longest array given to a join helper.
MaxArrayLen == 2

\* Number of helper calls nested in one template expression.
MaxCalls == 2

\* Number of invocations of exec started concurrently in one process.
NumProcs == 2

Procs == 1..NumProcs

ForeignKeys == 1..NumForeignKeys
ForeignVals == {"absent", "user"}

\* Values of the enums the run is parameterised by.
Targets == {"Android", "Ios"}
YesNo == {"Yes", "No"}

\* Results of util::host_target_triple().
HostTriples == {"x86_64-unknown-linux-gnu", "aarch64-apple-darwin"}
\* Values the build.target field of an existing override file may hold.
BuildTargets == {"unset", "stale-triple"} \cup HostTriples
\* Cargo targets the Android generator may add to the store.
AndroidTriples == {"aarch64-linux-android"}

\* enum Error
Errors ==
  { "InvalidTauriConfig", "AssetDirCreation", "LldbExtensionInstall",
    "DotCargoLoad", "HostTargetTripleDetection", "IosInit", "AndroidEnv",
    "AndroidInit", "DotCargoWrite", "OpenInEditor" }

\* The steps of exec, in program order.
StepOrder ==
  << "LoadConfig", "EnsureAssetDir", "OptionalDebuggerExtensionInstall",
     "LoadDotCargo", "DetectHostTriple", "BuildTemplateContext",
     "PlatformDelegation", "PersistDotCargo", "Report" >>

\* A DotCargo store: the default build target, the unrelated keys and the
\* per-target sections.
Stores ==
  [ build_target : BuildTargets,
    foreign : [ForeignKeys -> ForeignVals],
    targets : SUBSET AndroidTriples ]

EmptyStore ==
  [ build_target |-> "unset",
    foreign |-> [k \in ForeignKeys |-> "absent"],
    targets |-> {} ]

\* The override file: absent, or present with a store as content.
Files ==
  { [exists |-> FALSE, store |-> EmptyStore] } \cup
  [ exists : {TRUE}, store : Stores ]

VARIABLES
  pc,              \* the step exec is about to execute, or "done"
  result,          \* "running", "Ok" (Ok(config)) or the Error returned
  trace,           \* the steps executed so far, in order
  effects,         \* the side effects performed so far, in order
  target,          \* exec parameter
  non_interactive, \* exec parameter
  skip_dev_tools,  \* exec parameter
  open_in_editor,  \* exec parameter
  macos,           \* cfg(target_os = "macos")
  argv0,           \* std::env::args_os().next(): "none", or argv[0], which may be ""
  asset_dir,       \* asset_dir.is_dir() on the filesystem
  disk,            \* the override file on disk: [exists, store]
  disk0,           \* the override file as it was when the run started
  dot_cargo,       \* the in-memory DotCargo store
  code_query,      \* outcome of util::command_present("code"), "none" if not asked
  code_exit,       \* outcome of the extension install command, "none" if not run
  android_env,     \* outcome of android::env::Env::new(), "none" if not called
  host_triple,     \* the triple util::host_target_triple() returned, or "none"
  map,             \* the template context (JsonMap), key -> value
  entry,           \* how the run was started: through `command`, or `exec` directly
  ci_option,       \* Options::ci as given to command
  ci_env,          \* the CI environment variable as std::env::var sees it
  cpc,             \* concurrent invocations: the position of each in exec
  lock,            \* concurrent invocations: holder of the configuration mutex, 0 if free
  clog,            \* concurrent invocations: the steps executed, in order
  runs,            \* number of the current run of exec over the same filesystem
  ensured,         \* an earlier run got past its asset directory step
  h_param,         \* parameter 0 of the next helper call
  h_ctx,           \* the template data, as far as app.root-dir goes
  h_hist           \* the helper calls rendered so far: name, parameter, outcome

\* The state of one run of exec.
run_vars ==
  << pc, result, trace, effects, target, non_interactive, skip_dev_tools,
     open_in_editor, macos, argv0, asset_dir, disk, disk0, dot_cargo,
     code_query, code_exit, android_env, host_triple, map, entry, ci_option,
     ci_env >>

\* The state of concurrent invocations of exec in one process.
conc_vars == << cpc, lock, clog >>

\* The state carried from one run of exec to the next.
rerun_vars == << runs, ensured >>

\* The state of rendering template helpers.
helper_vars == << h_param, h_ctx, h_hist >>

\* What a single run of exec leaves alone.
other == << conc_vars, rerun_vars, helper_vars >>

\* What concurrent invocations, and the helpers, leave alone.
not_conc == << run_vars, rerun_vars, helper_vars >>
not_helpers == << run_vars, rerun_vars, conc_vars >>

vars == << run_vars, other >>

params ==
  << target, non_interactive, skip_dev_tools, open_in_editor, macos, argv0,
     entry, ci_option, ci_env >>

MapKeys == {"app", "apple", "android", "tauri-binary"}

\* Values of std::env::var("CI"): Err(NotPresent), Ok(_), Err(NotUnicode(_)).
CiEnvValues == {"unset", "set", "set_not_unicode"}

\* std::env::var("CI").is_ok()
CiVarIsOk(v) == v = "set"

\* options.ci = options.ci || std::env::var("CI").is_ok(); options.ci.into()
CommandNonInteractive(ci, v) == IF ci \/ CiVarIsOk(v) THEN "Yes" ELSE "No"

\* No concurrent invocation in progress.
ConcIdle ==
  /\ cpc = [p \in Procs |-> "done"]
  /\ lock = 0
  /\ clog = << >>

\* The first run over this filesystem.
FirstRun ==
  /\ runs = 1
  /\ ensured = FALSE

\* A value a helper's parameter 0 can have: nothing, a string, a number, or
\* an array.
NoParam == [kind |-> "missing", str |-> << >>, arr |-> << >>]

\* No helper rendered.
HelpersIdle ==
  /\ h_param = NoParam
  /\ h_ctx = [kind |-> "app_missing", root |-> << >>]
  /\ h_hist = << >>

\* The arguments of exec: those `command` passes, or any when exec is called
\* directly.
InitParams ==
  /\ target \in Targets
  /\ entry \in {"command", "exec"}
  /\ IF entry = "command"
       THEN /\ ci_option \in BOOLEAN
            /\ ci_env \in CiEnvValues
            /\ non_interactive = CommandNonInteractive(ci_option, ci_env)
            /\ skip_dev_tools = "No"
            /\ open_in_editor = "No"
       ELSE /\ ci_option = FALSE
            /\ ci_env = "unset"
            /\ non_interactive \in YesNo
            /\ skip_dev_tools \in YesNo
            /\ open_in_editor \in YesNo

Init ==
  /\ pc = "LoadConfig"
  /\ result = "running"
  /\ trace = << >>
  /\ effects = << >>
  /\ InitParams
  /\ ConcIdle
  /\ FirstRun
  /\ HelpersIdle
  /\ macos \in BOOLEAN
  /\ argv0 \in {"none", "", "cargo-tauri"}
  /\ asset_dir \in BOOLEAN
  /\ disk \in Files
  /\ disk0 = disk
  /\ dot_cargo = EmptyStore
  /\ code_query = "none"
  /\ code_exit = "none"
  /\ android_env = "none"
  /\ host_triple = "none"
  /\ map = [k \in MapKeys |-> "absent"]

\* Fail as a retry loop would have it: the error is noted and the step is
\* entered again.
FailAndRetry(err) ==
  /\ UNCHANGED pc
  /\ result' = err

\* `?` / `return Err(..)`: the run ends with the error.
Fail(err) ==
  /\ pc' = "done"
  /\ result' = err

\* Fall through to the next statement of exec.
Continue(next) ==
  /\ pc' = next
  /\ UNCHANGED result

Enter(step) == trace' = Append(trace, step)

\* LoadConfig with the asset directory created before the configuration
\* result is examined.
LoadConfig_DirFirst ==
  /\ pc = "LoadConfig"
  /\ Enter("LoadConfig")
  /\ \E ok \in BOOLEAN :
       IF ok
         THEN /\ Continue("EnsureAssetDir")
              /\ UNCHANGED << asset_dir, effects >>
         ELSE /\ Fail("InvalidTauriConfig")
              /\ asset_dir' = TRUE
              /\ effects' = IF asset_dir THEN effects
                            ELSE Append(effects, "create_dir_all")
  /\ UNCHANGED << params, other, disk, disk0, dot_cargo, code_query, code_exit,
                  android_env, host_triple, map >>

\* get_tauri_config(None).map_err(InvalidTauriConfig)?; get_config and
\* get_metadata are pure projections.
LoadConfig ==
  /\ pc = "LoadConfig"
  /\ Enter("LoadConfig")
  /\ \E ok \in BOOLEAN :
       IF ok THEN Continue("EnsureAssetDir") ELSE Fail("InvalidTauriConfig")
  /\ UNCHANGED << effects, params, other, asset_dir, disk, disk0,
                  dot_cargo, code_query, code_exit, android_env, host_triple, map >>

\* The directory created without looking whether it is there.
NeedsCreate_Always(is_dir) == TRUE

\* if !asset_dir.is_dir()
NeedsCreate(is_dir) == ~is_dir

\* if !asset_dir.is_dir() { fs::create_dir_all(&asset_dir).map_err(..)?; }
EnsureAssetDir ==
  /\ pc = "EnsureAssetDir"
  /\ Enter("EnsureAssetDir")
  /\ IF NeedsCreate(asset_dir)
       THEN \E ok \in BOOLEAN :
              IF ok
                THEN /\ asset_dir' = TRUE
                     /\ effects' = Append(effects, "create_dir_all")
                     /\ Continue("OptionalDebuggerExtensionInstall")
                ELSE /\ UNCHANGED << asset_dir, effects >>
                     /\ Fail("AssetDirCreation")
       ELSE /\ UNCHANGED << asset_dir, effects >>
            /\ Continue("OptionalDebuggerExtensionInstall")
  /\ UNCHANGED << params, other, disk, disk0, dot_cargo, code_query, code_exit, android_env,
                  host_triple, map >>

\* Outcomes of util::command_present("code"): Ok(true), Ok(false), Err(_).
PresenceOutcomes == {"present", "absent", "error"}

\* The query with its error taken for a present editor (unwrap_or(true)).
CommandPresentOrDefault_ErrorIsPresent(q) == q # "absent"

\* util::command_present("code").unwrap_or_default()
CommandPresentOrDefault(q) == q = "present"

\* The guard without its skip_dev_tools.no() conjunct.
InstallAttempted_IgnoresSkip(skip, q) == CommandPresentOrDefault(q)

\* skip_dev_tools.no() && util::command_present("code").unwrap_or_default()
InstallAttempted(skip, q) == skip = "No" /\ CommandPresentOrDefault(q)

\* code --install-extension vadimcn.vscode-lldb, with --force when
\* non_interactive.yes()
CodeCommand(ni) == IF ni = "Yes" THEN "code_install_force" ELSE "code_install"

\* The optional installation of the LLDB editor extension.  && short-circuits:
\* the presence query is made only when dev tools are not skipped.
OptionalDebuggerExtensionInstall ==
  /\ pc = "OptionalDebuggerExtensionInstall"
  /\ Enter("OptionalDebuggerExtensionInstall")
  /\ \E q \in PresenceOutcomes, ok \in BOOLEAN :
       /\ code_query' = IF skip_dev_tools = "No" THEN q ELSE "none"
       /\ IF InstallAttempted(skip_dev_tools, q)
            THEN /\ effects' = Append(effects, CodeCommand(non_interactive))
                 /\ code_exit' = IF ok THEN "ok" ELSE "failed"
                 /\ IF ok THEN Continue("LoadDotCargo")
                          ELSE Fail("LldbExtensionInstall")
            ELSE /\ UNCHANGED << effects, code_exit >>
                 /\ Continue("LoadDotCargo")
  /\ UNCHANGED << params, other, asset_dir, disk, disk0, dot_cargo, android_env,
                  host_triple, map >>

\* dot_cargo::DotCargo::load: the file's content, or an empty store when
\* there is no file.
DotCargoLoad(file) == IF file.exists THEN file.store ELSE EmptyStore

\* dot_cargo.write: the file then holds the store.
DotCargoWrite(dc) == [exists |-> TRUE, store |-> dc]

\* LoadDotCargo with a cleanup on failure that removes the asset directory.
LoadDotCargo_Rollback ==
  /\ pc = "LoadDotCargo"
  /\ Enter("LoadDotCargo")
  /\ \E ok \in BOOLEAN :
       IF ok
         THEN /\ dot_cargo' = DotCargoLoad(disk)
              /\ effects' = Append(effects, "dot_cargo_load")
              /\ UNCHANGED asset_dir
              /\ Continue("DetectHostTriple")
         ELSE /\ UNCHANGED << dot_cargo, effects >>
              /\ asset_dir' = FALSE
              /\ Fail("DotCargoLoad")
  /\ UNCHANGED << params, other, disk, disk0, code_query, code_exit, android_env,
                  host_triple, map >>

\* let mut dot_cargo = DotCargo::load(config.app()).map_err(DotCargoLoad)?;
LoadDotCargo ==
  /\ pc = "LoadDotCargo"
  /\ Enter("LoadDotCargo")
  /\ \E ok \in BOOLEAN :
       IF ok
         THEN /\ dot_cargo' = DotCargoLoad(disk)
              /\ effects' = Append(effects, "dot_cargo_load")
              /\ Continue("DetectHostTriple")
         ELSE /\ UNCHANGED << dot_cargo, effects >>
              /\ Fail("DotCargoLoad")
  /\ UNCHANGED << params, other, asset_dir, disk, disk0, code_query, code_exit, android_env,
                  host_triple, map >>

\* Setting the default target on a fresh store instead of the loaded one.
SetDefaultTarget_Fresh(dc, triple) == [EmptyStore EXCEPT !.build_target = triple]

\* dot_cargo.set_default_target(triple)
SetDefaultTarget(dc, triple) == [dc EXCEPT !.build_target = triple]

\* dot_cargo.set_default_target(
\*   util::host_target_triple().map_err(HostTargetTripleDetection)?);
\* the argument is evaluated, and may return, before the store is touched.
DetectHostTriple ==
  /\ pc = "DetectHostTriple"
  /\ Enter("DetectHostTriple")
  /\ \E r \in HostTriples \cup {"error"} :
       IF r # "error"
         THEN /\ host_triple' = r
              /\ dot_cargo' = SetDefaultTarget(dot_cargo, r)
              /\ effects' = Append(effects, "set_default_target")
              /\ Continue("BuildTemplateContext")
         ELSE /\ UNCHANGED << host_triple, dot_cargo, effects >>
              /\ Fail("HostTargetTripleDetection")
  /\ UNCHANGED << params, other, asset_dir, disk, disk0, code_query, code_exit, android_env, map >>

\* fn handlebars: the map holds "app", "android" and, on macOS, "apple".
HandlebarsMap(is_macos) ==
  [k \in MapKeys |->
     CASE k = "app" -> "config.app"
       [] k = "android" -> "config.android"
       [] k = "apple" -> IF is_macos THEN "config.apple" ELSE "absent"
       [] OTHER -> "absent"]

\* std::env::args_os().next().unwrap_or_else(|| "cargo").to_string_lossy()
TauriBinary(arg0) == IF arg0 = "none" THEN "cargo" ELSE arg0

\* let (handlebars, mut map) = handlebars(&config);
\* map.insert("tauri-binary", ..);
BuildTemplateContext ==
  /\ pc = "BuildTemplateContext"
  /\ Enter("BuildTemplateContext")
  /\ map' = [HandlebarsMap(macos) EXCEPT !["tauri-binary"] = TauriBinary(argv0)]
  /\ Continue("PlatformDelegation")
  /\ UNCHANGED << effects, params, other, asset_dir, disk, disk0,
                  dot_cargo, code_query, code_exit, android_env, host_triple >>

\* Outcomes of android::env::Env::new(): Ok(env), or an Err that
\* sdk_or_ndk_issue() classifies.
EnvOutcomes == {"ok", "sdk_or_ndk_issue", "other_error"}

\* The classification with every discovery failure taken as fatal.
SdkOrNdkIssue_Never(env) == FALSE

\* The classification with every discovery failure taken as recoverable.
SdkOrNdkIssue_Always(env) == TRUE

\* err.sdk_or_ndk_issue()
SdkOrNdkIssue(env) == env = "sdk_or_ndk_issue"

\* The Android generator receives &mut dot_cargo and may add cargo targets.
AndroidGenStore(dc, added) == [dc EXCEPT !.targets = @ \cup added]

\* The Android branch with the store written inside it, before the
\* generator's result is examined.
AndroidBranch_WritesStore ==
  /\ target = "Android"
  /\ \E env \in EnvOutcomes, added \in SUBSET AndroidTriples, ok \in BOOLEAN :
       /\ android_env' = env
       /\ IF env = "ok"
            THEN /\ effects' = effects \o
                      << "android_env_new", "android_gen", "dot_cargo_write" >>
                 /\ dot_cargo' = AndroidGenStore(dot_cargo, added)
                 /\ disk' = DotCargoWrite(dot_cargo')
                 /\ IF ok THEN Continue("PersistDotCargo")
                          ELSE Fail("AndroidInit")
            ELSE IF env = "sdk_or_ndk_issue"
              THEN /\ effects' =
                        effects \o << "android_env_new", "action_request" >>
                   /\ UNCHANGED << dot_cargo, disk >>
                   /\ Continue("PersistDotCargo")
              ELSE /\ effects' = Append(effects, "android_env_new")
                   /\ UNCHANGED << dot_cargo, disk >>
                   /\ Fail("AndroidEnv")

\* if target == Target::Android { match android::env::Env::new() { .. } }
AndroidBranch ==
  /\ target = "Android"
  /\ UNCHANGED disk
  /\ \E env \in EnvOutcomes, added \in SUBSET AndroidTriples, ok \in BOOLEAN :
       /\ android_env' = env
       /\ IF env = "ok"
            THEN /\ effects' = effects \o << "android_env_new", "android_gen" >>
                 /\ dot_cargo' = AndroidGenStore(dot_cargo, added)
                 /\ IF ok THEN Continue("PersistDotCargo")
                          ELSE Fail("AndroidInit")
            ELSE IF SdkOrNdkIssue(env)
              THEN /\ effects' =
                        effects \o << "android_env_new", "action_request" >>
                   /\ UNCHANGED dot_cargo
                   /\ Continue("PersistDotCargo")
              ELSE /\ effects' = Append(effects, "android_env_new")
                   /\ UNCHANGED dot_cargo
                   /\ Fail("AndroidEnv")

\* The iOS branch without its cfg(target_os = "macos") attribute.
IosGenerated_AnyHost(is_macos, t) == t = "Ios"

\* if target == Target::Ios, compiled only under cfg(target_os = "macos")
IosGenerated(is_macos, t) == is_macos /\ t = "Ios"

\* else { #[cfg(target_os = "macos")] if target == Target::Ios { ios gen } }
IosBranch ==
  /\ target # "Android"
  /\ UNCHANGED << dot_cargo, android_env, disk >>
  /\ IF IosGenerated(macos, target)
       THEN /\ effects' = Append(effects, "ios_gen")
            /\ \E ok \in BOOLEAN :
                 IF ok THEN Continue("PersistDotCargo") ELSE Fail("IosInit")
       ELSE /\ UNCHANGED effects
            /\ Continue("PersistDotCargo")

\* The branch on the requested target.
PlatformDelegation ==
  /\ pc = "PlatformDelegation"
  /\ Enter("PlatformDelegation")
  /\ (AndroidBranch \/ IosBranch)
  /\ UNCHANGED << params, other, asset_dir, disk0, code_query, code_exit,
                  host_triple, map >>

\* The write with its error dropped: the run goes on to the report.
PersistDotCargo_ErrorDropped ==
  /\ pc = "PersistDotCargo"
  /\ Enter("PersistDotCargo")
  /\ \E ok \in BOOLEAN :
       /\ IF ok
            THEN /\ disk' = DotCargoWrite(dot_cargo)
                 /\ effects' = Append(effects, "dot_cargo_write")
            ELSE UNCHANGED << disk, effects >>
       /\ Continue("Report")
  /\ UNCHANGED << params, other, asset_dir, disk0, dot_cargo, code_query, code_exit, android_env,
                  host_triple, map >>

\* dot_cargo.write(config.app()).map_err(DotCargoWrite)?;
\* A write that fails is taken to leave the file as it was: the store's
\* writer is not part of this file and its contract names no other outcome.
PersistDotCargo ==
  /\ pc = "PersistDotCargo"
  /\ Enter("PersistDotCargo")
  /\ \E ok \in BOOLEAN :
       IF ok
         THEN /\ disk' = DotCargoWrite(dot_cargo)
              /\ effects' = Append(effects, "dot_cargo_write")
              /\ Continue("Report")
         ELSE /\ UNCHANGED << disk, effects >>
              /\ Fail("DotCargoWrite")
  /\ UNCHANGED << params, other, asset_dir, disk0, dot_cargo, code_query, code_exit, android_env,
                  host_triple, map >>

\* The editor opened whether or not the caller asked for it.
OpenRequested_Always(open) == TRUE

\* if open_in_editor.yes()
OpenRequested(open) == open = "Yes"

\* Report::victory(..).print(wrapper);
\* if open_in_editor.yes() { util::open_in_editor(cwd).map_err(OpenInEditor)?; }
\* Ok(config)
Report ==
  /\ pc = "Report"
  /\ Enter("Report")
  /\ pc' = "done"
  /\ IF OpenRequested(open_in_editor)
       THEN /\ effects' = effects \o << "victory", "open_in_editor" >>
            /\ \E ok \in BOOLEAN :
                 result' = IF ok THEN "Ok" ELSE "OpenInEditor"
       ELSE /\ effects' = Append(effects, "victory")
            /\ result' = "Ok"
  /\ UNCHANGED << params, other, asset_dir, disk, disk0, dot_cargo,
                  code_query, code_exit, android_env, host_triple, map >>

Next ==
  \/ LoadConfig
  \/ EnsureAssetDir
  \/ OptionalDebuggerExtensionInstall
  \/ LoadDotCargo
  \/ DetectHostTriple
  \/ BuildTemplateContext
  \/ PlatformDelegation
  \/ PersistDotCargo
  \/ Report

Spec == Init /\ [][Next]_vars

\* exec called again, with the same arguments and configuration, once the
\* previous run has returned: the filesystem is as that run left it.
Rerun ==
  /\ pc = "done"
  /\ runs < MaxRuns
  /\ runs' = runs + 1
  /\ ensured' = (ensured \/ (/\ \E i \in 1..Len(trace) : trace[i] = "EnsureAssetDir"
                             /\ result # "AssetDirCreation"))
  /\ pc' = "LoadConfig"
  /\ result' = "running"
  /\ trace' = << >>
  /\ effects' = << >>
  /\ disk0' = disk
  /\ dot_cargo' = EmptyStore
  /\ code_query' = "none"
  /\ code_exit' = "none"
  /\ android_env' = "none"
  /\ host_triple' = "none"
  /\ map' = [k \in MapKeys |-> "absent"]
  /\ UNCHANGED << params, asset_dir, disk, conc_vars, helper_vars >>

\* Runs of exec one after the other.
SpecRerun == Init /\ [][Next \/ Rerun]_vars

(***************************************************************************)
(* Concurrent invocations of exec in one process.  Each invocation obtains *)
(* the configuration handle, locks it, and keeps the guard until it        *)
(* returns; the handle is the process-wide configuration singleton.        *)
(***************************************************************************)

\* The positions of an invocation, in program order.
ConcOrder ==
  << "LoadConfig", "LockConfig", "DeriveFacets", "EnsureAssetDir",
     "OptionalDebuggerExtensionInstall", "LoadDotCargo", "DetectHostTriple",
     "BuildTemplateContext", "PlatformDelegation", "PersistDotCargo",
     "Report" >>

ConcIndex(step) == CHOOSE i \in 1..Len(ConcOrder) : ConcOrder[i] = step

\* The statements executed while the guard is held.
GuardedSteps == { ConcOrder[i] : i \in 3..Len(ConcOrder) }

\* The guarded statements that can return an error.
FallibleSteps == GuardedSteps \ {"DeriveFacets", "BuildTemplateContext"}

\* The state of the single run, at rest while concurrent invocations are
\* looked at.
RunAtRest ==
  /\ pc = "done"
  /\ result = "Ok"
  /\ trace = << >>
  /\ effects = << >>
  /\ target = "Android"
  /\ entry = "exec"
  /\ ci_option = FALSE
  /\ ci_env = "unset"
  /\ non_interactive = "No"
  /\ skip_dev_tools = "No"
  /\ open_in_editor = "No"
  /\ macos = FALSE
  /\ argv0 = "cargo-tauri"
  /\ asset_dir = TRUE
  /\ disk = [exists |-> FALSE, store |-> EmptyStore]
  /\ disk0 = disk
  /\ dot_cargo = EmptyStore
  /\ code_query = "none"
  /\ code_exit = "none"
  /\ android_env = "none"
  /\ host_triple = "none"
  /\ map = [k \in MapKeys |-> "absent"]

\* Every invocation is about to start.
ConcInit ==
  /\ RunAtRest
  /\ FirstRun
  /\ HelpersIdle
  /\ cpc = [p \in Procs |-> "LoadConfig"]
  /\ lock = 0
  /\ clog = << >>

Logged(p, step) == clog' = Append(clog, [proc |-> p, step |-> step])

\* get_tauri_config(None).map_err(InvalidTauriConfig)?  -- no guard held yet
ConcLoadConfig(p) ==
  /\ cpc[p] = "LoadConfig"
  /\ Logged(p, "LoadConfig")
  /\ \E ok \in BOOLEAN :
       cpc' = [cpc EXCEPT ![p] = IF ok THEN "LockConfig" ELSE "done"]
  /\ UNCHANGED << lock, not_conc >>

\* Locking a mutex of the invocation's own: nothing to wait for.
ConcLockConfig_NoWait(p) ==
  /\ cpc[p] = "LockConfig"
  /\ lock' = p
  /\ Logged(p, "LockConfig")
  /\ cpc' = [cpc EXCEPT ![p] = "DeriveFacets"]
  /\ UNCHANGED not_conc

\* let tauri_config_guard = tauri_config.lock().unwrap();
\* blocks while another invocation holds the guard.
ConcLockConfig(p) ==
  /\ cpc[p] = "LockConfig"
  /\ lock = 0
  /\ lock' = p
  /\ Logged(p, "LockConfig")
  /\ cpc' = [cpc EXCEPT ![p] = "DeriveFacets"]
  /\ UNCHANGED not_conc

\* A statement of exec after the lock: it falls through to the next one, or
\* returns (an error, or Ok after the last), which drops the guard.
ConcGuardedStep(p) ==
  /\ cpc[p] \in GuardedSteps
  /\ Logged(p, cpc[p])
  /\ \E ok \in BOOLEAN :
       LET returns == (~ ok /\ cpc[p] \in FallibleSteps) \/ cpc[p] = "Report"
       IN  /\ cpc' = [cpc EXCEPT ![p] =
                        IF returns THEN "done"
                        ELSE ConcOrder[ConcIndex(cpc[p]) + 1]]
           /\ lock' = IF returns THEN 0 ELSE lock
  /\ UNCHANGED not_conc

ConcNext ==
  \E p \in Procs :
    \/ ConcLoadConfig(p)
    \/ ConcLockConfig(p)
    \/ ConcGuardedStep(p)

SpecConc == ConcInit /\ [][ConcNext]_vars

(***************************************************************************)
(* The template helpers registered by handlebars().  A text is a sequence   *)
(* of one-character strings.  Paths follow Unix std::path: "/" is the only  *)
(* separator and there is no prefix component.                              *)
(***************************************************************************)
PathChars == {"/", ".", "a"}
ElemChars == {"a", "\"", "\\"}

RECURSIVE TextsUpTo(_, _)
TextsUpTo(chars, n) ==
  IF n = 0 THEN { << >> }
  ELSE LET shorter == TextsUpTo(chars, n - 1)
       IN  shorter \cup { Append(t, c) : t \in shorter, c \in chars }

PathTexts == TextsUpTo(PathChars, MaxPathLen)

\* Values of app.root-dir the context is rendered with.
RootDirs == { <<"/", "a">>, <<"/", "a", "/">>, <<"a">>, <<"/">>, << >> }

\* The template data: app absent, app.root-dir absent, app.root-dir not a
\* string, or app.root-dir a string.
Contexts ==
  { [kind |-> k, root |-> << >>] :
      k \in {"app_missing", "root_dir_missing", "root_dir_not_str"} }
  \cup { [kind |-> "ok", root |-> r] : r \in RootDirs }

\* Elements of a JSON array parameter: strings, and one value of another type.
StrElem(s) == [is_str |-> TRUE, s |-> s]
NonStrElem == [is_str |-> FALSE, s |-> << >>]
Elems == { StrElem(s) : s \in TextsUpTo(ElemChars, 1) \cup { <<"a", "\\">> } }
           \cup { NonStrElem }

RECURSIVE ArraysUpTo(_)
ArraysUpTo(n) ==
  IF n = 0 THEN { << >> }
  ELSE LET shorter == ArraysUpTo(n - 1)
       IN  shorter \cup { Append(a, e) : a \in shorter, e \in Elems }

StrParam(s) == [kind |-> "string", str |-> s, arr |-> << >>]
ArrParam(a) == [kind |-> "array", str |-> << >>, arr |-> a]
NumParam == [kind |-> "number", str |-> << >>, arr |-> << >>]

\* Parameter 0 of a helper: absent, a number, a string or an array.
Params ==
  { NoParam, NumParam }
  \cup { StrParam(s) : s \in PathTexts }
  \cup { ArrParam(a) : a \in ArraysUpTo(MaxArrayLen) }

\* Outcome of one helper call: Ok after out.write(text), or Err(err) with
\* nothing written.
Written(text) == [wrote |-> TRUE, out |-> text, err |-> "none"]
Failure(err) == [wrote |-> FALSE, out |-> << >>, err |-> err]

\* get_str: the parameter as a string, "" when it is absent or not a string.
GetStr(param) == IF param.kind = "string" THEN param.str ELSE << >>

\* A collect that takes every element for a string.
AllStrings_Any(arr) == TRUE

\* collect::<Option<Vec<String>>>: Some only if as_str is Some for every
\* element.
AllStrings(arr) == \A i \in 1..Len(arr) : arr[i].is_str

\* char::escape_debug on the characters of ElemChars.
EscapeDebug(c) == IF c \in {"\"", "\\"} THEN <<"\\", c>> ELSE <<c>>

\* format!("{:?}", s) of a string.
RECURSIVE EscapedText(_)
EscapedText(s) ==
  IF s = << >> THEN << >> ELSE EscapeDebug(Head(s)) \o EscapedText(Tail(s))

DebugFormat(s) == <<"\"">> \o EscapedText(s) \o <<"\"">>

\* format!("{:?}", format!(":{}", s))
ColonPrefixDebugFormat(s) == DebugFormat(<<":">> \o s)

\* The formatter closures the helpers give to get_str_array.
Formatted(formatter, s) ==
  CASE formatter = "to_string" -> s
    [] formatter = "debug" -> DebugFormat(s)
    [] formatter = "colon_debug" -> ColonPrefixDebugFormat(s)

\* get_str_array: None unless the parameter is an array whose elements are
\* all strings; then the formatted elements in order.
GetStrArray(param, formatter) ==
  IF param.kind = "array" /\ AllStrings(param.arr)
  THEN [some |-> TRUE,
        items |-> [i \in 1..Len(param.arr) |-> Formatted(formatter, param.arr[i].s)]]
  ELSE [some |-> FALSE, items |-> << >>]

\* A join with the separator "," alone.
RECURSIVE JoinCommaSpace_NoSpace(_)
JoinCommaSpace_NoSpace(items) ==
  IF items = << >> THEN << >>
  ELSE IF Len(items) = 1 THEN items[1]
  ELSE items[1] \o <<",">> \o JoinCommaSpace_NoSpace(Tail(items))

\* [String]::join(", ")
RECURSIVE JoinCommaSpace(_)
JoinCommaSpace(items) ==
  IF items = << >> THEN << >>
  ELSE IF Len(items) = 1 THEN items[1]
  ELSE items[1] \o <<",", " ">> \o JoinCommaSpace(Tail(items))

JoinHelper(param) ==
  LET strs == GetStrArray(param, "to_string")
  IN  IF strs.some THEN Written(JoinCommaSpace(strs.items))
      ELSE Failure("join_not_array")

QuoteAndJoinHelper(param) ==
  LET strs == GetStrArray(param, "debug")
  IN  IF strs.some THEN Written(JoinCommaSpace(strs.items))
      ELSE Failure("quote_and_join_not_array")

QuoteAndJoinColonPrefixHelper(param) ==
  LET strs == GetStrArray(param, "colon_debug")
  IN  IF strs.some THEN Written(JoinCommaSpace(strs.items))
      ELSE Failure("quote_and_join_colon_prefix_not_array")

\* --- std::path on Unix ---------------------------------------------------
HasRoot(t) == Len(t) > 0 /\ t[1] = "/"

\* Index of the first / last separator of t, 0 when it has none.
FirstSep(t) ==
  IF \E i \in 1..Len(t) : t[i] = "/"
  THEN CHOOSE i \in 1..Len(t) : t[i] = "/" /\ \A j \in 1..(i - 1) : t[j] # "/"
  ELSE 0
LastSep(t) ==
  IF \E i \in 1..Len(t) : t[i] = "/"
  THEN CHOOSE i \in 1..Len(t) :
         t[i] = "/" /\ \A j \in (i + 1)..Len(t) : t[j] # "/"
  ELSE 0

\* The text split at every separator.
RECURSIVE SplitParts(_)
SplitParts(t) ==
  LET i == FirstSep(t)
  IN  IF i = 0 THEN << t >>
      ELSE << SubSeq(t, 1, i - 1) >> \o SplitParts(SubSeq(t, i + 1, Len(t)))

\* Components::include_cur_dir: an unrooted path that is "." or begins "./".
IncludeCurDir(t) ==
  /\ ~ HasRoot(t)
  /\ Len(t) > 0
  /\ t[1] = "."
  /\ (Len(t) = 1 \/ t[2] = "/")

\* Path::components: the root, a leading ".", and the normal parts; empty
\* parts and other "." parts are skipped.
PathComponents(t) ==
  LET parts == SplitParts(t)
      kept == { i \in 1..Len(parts) :
                  /\ parts[i] # << >>
                  /\ (parts[i] # <<".">> \/ (i = 1 /\ IncludeCurDir(t))) }
      nth(j) == CHOOSE i \in kept : Cardinality({ m \in kept : m <= i }) = j
  IN  (IF HasRoot(t) THEN << <<"/">> >> ELSE << >>)
      \o [j \in 1..Cardinality(kept) |-> parts[nth(j)]]

\* A join that puts no separator between the base and the argument.
PathJoin_NoSeparator(base, p) == IF HasRoot(p) THEN p ELSE base \o p

\* Path::join, by PathBuf::push: an absolute argument replaces the base.
PathJoin(base, p) ==
  IF HasRoot(p) THEN p
  ELSE IF base = << >> THEN p
  ELSE IF base[Len(base)] = "/" THEN base \o p
  ELSE base \o <<"/">> \o p

\* Components::trim_left: drop leading separators and "." parts.
RECURSIVE TrimLeft(_)
TrimLeft(t) ==
  IF t = << >> THEN t
  ELSE LET i == FirstSep(t)
           part == IF i = 0 THEN t ELSE SubSeq(t, 1, i - 1)
           size == IF i = 0 THEN Len(t) ELSE i
       IN  IF part \in { << >>, <<".">> }
           THEN TrimLeft(SubSeq(t, size + 1, Len(t)))
           ELSE t

\* Components::trim_right: drop trailing separators and "." parts, never
\* going into the first before characters.
RECURSIVE TrimRight(_, _)
TrimRight(t, before) ==
  IF Len(t) <= before THEN t
  ELSE LET body == SubSeq(t, before + 1, Len(t))
           i == LastSep(body)
           part == IF i = 0 THEN body ELSE SubSeq(body, i + 1, Len(body))
           size == Len(part) + (IF i = 0 THEN 0 ELSE 1)
       IN  IF part \in { << >>, <<".">> }
           THEN TrimRight(SubSeq(t, 1, Len(t) - size), before)
           ELSE t

\* Components::next in the body, n times: the text left after n normal parts.
RECURSIVE DropBody(_, _)
DropBody(t, n) ==
  IF n = 0 THEN t
  ELSE LET u == TrimLeft(t)
           i == FirstSep(u)
           size == IF i = 0 THEN Len(u) ELSE i
       IN  DropBody(SubSeq(u, size + 1, Len(u)), n - 1)

\* The text left after the first n components.
DropComponents(t, n) ==
  IF n = 0 THEN t
  ELSE IF HasRoot(t) \/ IncludeCurDir(t) THEN DropBody(Tail(t), n - 1)
  ELSE DropBody(t, n)

\* Length of the root and leading "." that trim_right must keep.
LenBeforeBody(t) ==
  (IF HasRoot(t) THEN 1 ELSE 0) + (IF IncludeCurDir(t) THEN 1 ELSE 0)

IsPrefix(s, t) == Len(s) <= Len(t) /\ SubSeq(t, 1, Len(s)) = s

\* A strip_prefix that compares the texts instead of the components.
StripPrefix_Textual(p, base) ==
  IF IsPrefix(base, p)
  THEN [ok |-> TRUE, path |-> SubSeq(p, Len(base) + 1, Len(p))]
  ELSE [ok |-> FALSE, path |-> << >>]

\* Path::strip_prefix: Err unless the components of base begin those of p;
\* then Components::as_path of what is left.
StripPrefix(p, base) ==
  LET n == Len(PathComponents(base))
  IN  IF ~ IsPrefix(PathComponents(base), PathComponents(p))
      THEN [ok |-> FALSE, path |-> << >>]
      ELSE [ok |-> TRUE,
            path |-> IF n = 0 THEN TrimRight(p, LenBeforeBody(p))
                     ELSE TrimRight(TrimLeft(DropComponents(p, n)), 0)]

\* --- app_root, prefix-path, unprefix-path --------------------------------
AppRoot(ctx) ==
  IF ctx.kind = "ok" THEN [err |-> "none", root |-> ctx.root]
  ELSE [err |-> ctx.kind, root |-> << >>]

PrefixPathHelper(param, ctx) ==
  LET root == AppRoot(ctx)
  IN  IF root.err # "none" THEN Failure(root.err)
      ELSE Written(PathJoin(root.root, GetStr(param)))

UnprefixPathHelper(param, ctx) ==
  LET root == AppRoot(ctx)
      stripped == StripPrefix(GetStr(param), root.root)
  IN  IF root.err # "none" THEN Failure(root.err)
      ELSE IF ~ stripped.ok THEN Failure("not_in_app_root")
      ELSE Written(stripped.path)

\* --- rendering -----------------------------------------------------------
HelperNames ==
  { "join", "quote-and-join", "quote-and-join-colon-prefix",
    "prefix-path", "unprefix-path" }

HelperCall(name, param, ctx) ==
  CASE name = "join" -> JoinHelper(param)
    [] name = "quote-and-join" -> QuoteAndJoinHelper(param)
    [] name = "quote-and-join-colon-prefix" -> QuoteAndJoinColonPrefixHelper(param)
    [] name = "prefix-path" -> PrefixPathHelper(param, ctx)
    [] name = "unprefix-path" -> UnprefixPathHelper(param, ctx)

\* A template renders the helper name on h_param; what it writes is the
\* parameter of the helper call enclosing it.  An error ends the rendering.
Render(name) ==
  /\ Len(h_hist) < MaxCalls
  /\ IF h_hist = << >> THEN TRUE ELSE h_hist[Len(h_hist)].err = "none"
  /\ LET res == HelperCall(name, h_param, h_ctx)
     IN  /\ h_hist' = Append(h_hist,
                        [name |-> name, param |-> h_param, wrote |-> res.wrote,
                         out |-> res.out, err |-> res.err])
         /\ h_param' = IF res.err = "none" THEN StrParam(res.out) ELSE h_param
  /\ UNCHANGED << h_ctx, not_helpers >>

RenderJoin == Render("join")
RenderQuoteAndJoin == Render("quote-and-join")
RenderQuoteAndJoinColonPrefix == Render("quote-and-join-colon-prefix")
RenderPrefixPath == Render("prefix-path")
RenderUnprefixPath == Render("unprefix-path")

HelpersInit ==
  /\ RunAtRest
  /\ ConcIdle
  /\ FirstRun
  /\ h_param \in Params
  /\ h_ctx \in Contexts
  /\ h_hist = << >>

HelpersNext ==
  \/ RenderJoin
  \/ RenderQuoteAndJoin
  \/ RenderQuoteAndJoinColonPrefix
  \/ RenderPrefixPath
  \/ RenderUnprefixPath

SpecHelpers == HelpersInit /\ [][HelpersNext]_vars

(***************************************************************************)
(* Vocabulary of the properties.                                           *)
(***************************************************************************)
Has(e) == \E i \in 1..Len(effects) : effects[i] = e
Count(e) == Cardinality({ i \in 1..Len(effects) : effects[i] = e })
\* Every occurrence of a precedes every occurrence of b.
Before(a, b) ==
  \A i, j \in 1..Len(effects) : (effects[i] = a /\ effects[j] = b) => i < j
Executed(step) == \E i \in 1..Len(trace) : trace[i] = step
StepIndex(step) == CHOOSE i \in 1..Len(StepOrder) : StepOrder[i] = step
StepsThrough(n) == SubSeq(StepOrder, 1, n)
\* The step whose failure each Error reports.
RaisedBy(err) ==
  CASE err = "InvalidTauriConfig" -> "LoadConfig"
    [] err = "AssetDirCreation" -> "EnsureAssetDir"
    [] err = "LldbExtensionInstall" -> "OptionalDebuggerExtensionInstall"
    [] err = "DotCargoLoad" -> "LoadDotCargo"
    [] err = "HostTargetTripleDetection" -> "DetectHostTriple"
    [] err \in {"AndroidEnv", "AndroidInit", "IosInit"} -> "PlatformDelegation"
    [] err = "DotCargoWrite" -> "PersistDotCargo"
    [] err = "OpenInEditor" -> "Report"
Steps == { StepOrder[i] : i \in 1..Len(StepOrder) }

\* C1: the steps of a run execute in the order of StepOrder, each at most
\* once and none skipped; a run that is still going has executed exactly the
\* steps before its position; a run that returned an error has executed the
\* steps up to and including the one that raised it and no later one, and
\* nothing can execute after the return; a run that returned Ok executed all.
C1_StepsInOrder ==
  /\ \E n \in 0..Len(StepOrder) : trace = StepsThrough(n)
  /\ pc \in Steps \cup {"done"}
  /\ pc \in Steps =>
       /\ result = "running"
       /\ trace = StepsThrough(StepIndex(pc) - 1)
  /\ pc = "done" =>
       /\ result \in Errors \cup {"Ok"}
       /\ ~ ENABLED Next
  /\ result \in Errors =>
       /\ pc = "done"
       /\ trace = StepsThrough(StepIndex(RaisedBy(result)))
  /\ result = "Ok" => pc = "done" /\ trace = StepOrder

\* A run that aborted in the middle of the sequence, at platform delegation.
C1_Witness ==
  /\ result = "AndroidInit"
  /\ trace = StepsThrough(7)

SdkNdkCase == target = "Android" /\ android_env = "sdk_or_ndk_issue"

\* C2 as stated: a run for Android whose environment discovery failed with
\* an SDK or NDK issue ends with Ok, one action-request report, no Android
\* generation and the store written to disk.
C2_AsStated ==
  (pc = "done" /\ SdkNdkCase) =>
    /\ result = "Ok"
    /\ Count("action_request") = 1
    /\ ~ Has("android_gen")
    /\ Has("dot_cargo_write")

\* C2 amended: in a run for Android whose environment discovery failed with
\* an SDK or NDK issue, that failure raises no error: exactly one
\* action-request report is emitted, the Android generator is not invoked and
\* the run goes on to PersistDotCargo; it ends with Ok and the store written,
\* unless the write itself fails (DotCargoWrite, nothing written) or a
\* requested editor-open fails (OpenInEditor, store written).
C2_RecoverableSdkNdk ==
  SdkNdkCase =>
    /\ Count("action_request") = 1
    /\ ~ Has("android_gen")
    /\ pc \in {"PersistDotCargo", "Report", "done"}
    /\ result \notin {"AndroidEnv", "AndroidInit"}
    /\ pc = "done" =>
         \/ result = "Ok" /\ Count("dot_cargo_write") = 1
                          /\ disk = DotCargoWrite(dot_cargo)
         \/ result = "DotCargoWrite" /\ ~ Has("dot_cargo_write")
         \/ /\ result = "OpenInEditor"
            /\ open_in_editor = "Yes"
            /\ Count("dot_cargo_write") = 1

\* A run that recovered from the SDK/NDK issue and returned the Config.
C2_Witness ==
  /\ SdkNdkCase
  /\ result = "Ok"
  /\ Has("action_request")

\* C3: in a run for Android whose environment discovery failed with an
\* error that is not an SDK or NDK issue, the run returns AndroidEnv, the
\* Android generator is not invoked and the store is not written: the
\* override file is as it was before the run.
C3_FatalAndroidEnv ==
  (target = "Android" /\ android_env = "other_error") =>
    /\ pc = "done"
    /\ result = "AndroidEnv"
    /\ ~ Has("android_gen")
    /\ ~ Has("action_request")
    /\ ~ Has("dot_cargo_write")
    /\ ~ Executed("PersistDotCargo")
    /\ disk = disk0

\* A run that returned AndroidEnv after the store was loaded and changed in
\* memory.
C3_Witness ==
  /\ target = "Android"
  /\ android_env = "other_error"
  /\ result = "AndroidEnv"
  /\ Has("set_default_target")
  /\ dot_cargo # disk0.store

\* C4: after a run that returned Ok, every unrelated key the override file
\* held before the run is in the file with its value unchanged, the run set
\* the default target exactly once, and the file's default target is the
\* detected host triple; the per-target sections only grow, and only when
\* the Android generator ran.
C4_ForeignKeysPreserved ==
  result = "Ok" =>
    /\ disk.exists
    /\ disk.store.foreign = disk0.store.foreign
    /\ host_triple \in HostTriples
    /\ disk.store.build_target = host_triple
    /\ Count("set_default_target") = 1
    /\ disk0.store.targets \subseteq disk.store.targets
    /\ ~ Has("android_gen") => disk.store.targets = disk0.store.targets

\* A successful run over a file that held a user key and a stale default
\* target.
C4_Witness ==
  /\ result = "Ok"
  /\ disk0.exists
  /\ \E k \in ForeignKeys : disk0.store.foreign[k] = "user"
  /\ disk0.store.build_target = "stale-triple"
  /\ disk.store.build_target # "stale-triple"

Spawned == Has("code_install") \/ Has("code_install_force")

\* C5: the extension install command is spawned exactly when dev tools are
\* not skipped and the presence query answered present, and at most once;
\* an absent editor spawns nothing, raises no error and the run goes on to
\* LoadDotCargo; a spawned command carries --force exactly when the run is
\* non-interactive; a failing command ends the run with LldbExtensionInstall
\* at that step, and nothing else does.
C5_ExtensionInstall ==
  /\ Spawned <=> (skip_dev_tools = "No" /\ code_query = "present")
  /\ Spawned <=> code_exit # "none"
  /\ Count("code_install") + Count("code_install_force") <= 1
  /\ Has("code_install_force") => non_interactive = "Yes"
  /\ Has("code_install") => non_interactive = "No"
  /\ code_query = "absent" =>
       /\ ~ Spawned
       /\ result # "LldbExtensionInstall"
       /\ pc = "LoadDotCargo" \/ Executed("LoadDotCargo")
  /\ code_exit = "failed" =>
       /\ result = "LldbExtensionInstall"
       /\ pc = "done"
       /\ trace = StepsThrough(3)
  /\ result = "LldbExtensionInstall" => code_exit = "failed"

\* A non-interactive run whose forced install command failed.
C5_Witness ==
  /\ Has("code_install_force")
  /\ non_interactive = "Yes"
  /\ result = "LldbExtensionInstall"

PlatformErrors == {"AndroidEnv", "AndroidInit", "IosInit"}

\* C6 amended: a run executes at most one platform generator, the one of
\* its target: a run for Ios never calls the Android environment discovery
\* or generator, a run for Android never calls the iOS generator, and the
\* iOS generator runs only on macOS.  On another host a run for Ios that
\* executed platform delegation generated nothing, raised no platform error
\* and went on to PersistDotCargo; the Victory report follows when that
\* write succeeded, and the run returned DotCargoWrite when it did not.
C6_OneBranch ==
  /\ target = "Ios" =>
       /\ android_env = "none"
       /\ ~ Has("android_env_new")
       /\ ~ Has("android_gen")
       /\ ~ Has("action_request")
  /\ target = "Android" => ~ Has("ios_gen")
  /\ Count("android_gen") + Count("ios_gen") <= 1
  /\ Has("ios_gen") => macos
  /\ (target = "Ios" /\ ~ macos /\ Executed("PlatformDelegation")) =>
       /\ ~ Has("ios_gen")
       /\ result \notin PlatformErrors
       /\ pc = "PersistDotCargo" \/ Executed("PersistDotCargo")
       /\ (pc = "done" /\ Has("dot_cargo_write")) => Count("victory") = 1
       /\ (pc = "done" /\ ~ Has("dot_cargo_write")) => result = "DotCargoWrite"

\* A run for Ios on a host that is not macOS, ended with the Victory report.
C6_Witness ==
  /\ target = "Ios"
  /\ ~ macos
  /\ result = "Ok"
  /\ Has("victory")
  /\ ~ Has("ios_gen")

\* C7: the editor is opened only when the caller asked for it, at most
\* once, as the last effect of the run, after the one store write and the
\* one Victory report; a run that returned OpenInEditor executed every step
\* and left the store written on disk.
C7_EditorOpenLast ==
  /\ Has("open_in_editor") =>
       /\ open_in_editor = "Yes"
       /\ Count("open_in_editor") = 1
       /\ effects[Len(effects)] = "open_in_editor"
       /\ Count("dot_cargo_write") = 1
       /\ Count("victory") = 1
       /\ Before("dot_cargo_write", "victory")
       /\ Before("victory", "open_in_editor")
  /\ result = "OpenInEditor" =>
       /\ Has("open_in_editor")
       /\ trace = StepOrder
       /\ disk = DotCargoWrite(dot_cargo)

\* A run whose editor-open failed after the store was written.
C7_Witness ==
  /\ result = "OpenInEditor"
  /\ Has("dot_cargo_write")
  /\ Has("victory")

\* C6 as stated, for its last part: on a host that is not macOS, a run for
\* Ios that executed platform delegation ends having executed
\* PersistDotCargo and emitted the Victory report.
C6_AsStated ==
  (pc = "done" /\ target = "Ios" /\ ~ macos /\ Executed("PlatformDelegation")) =>
    /\ ~ Has("ios_gen")
    /\ Executed("PersistDotCargo")
    /\ Has("victory")

\* In a state: a run that stopped at LoadConfig returned InvalidTauriConfig,
\* and a run that returned it executed no other step and logged no effect.
C8_ConfigFailureInv ==
  /\ (pc = "done" /\ trace = StepsThrough(1)) => result = "InvalidTauriConfig"
  /\ result = "InvalidTauriConfig" =>
       /\ trace = StepsThrough(1)
       /\ effects = << >>
       /\ disk = disk0
       /\ dot_cargo = EmptyStore
       /\ code_query = "none"
       /\ code_exit = "none"
       /\ android_env = "none"

\* In a step: the step that returns InvalidTauriConfig changes nothing on the
\* filesystem and leaves the log of effects empty.
C8_ConfigFailureStep ==
  result' = "InvalidTauriConfig" =>
    /\ asset_dir' = asset_dir
    /\ disk' = disk
    /\ effects' = << >>

\* C8: a run that stopped at LoadConfig returned InvalidTauriConfig, and a
\* run that returned InvalidTauriConfig executed no other step and had no
\* effect: nothing created, nothing spawned or queried, the store neither
\* loaded nor written, no report; the step that returns it leaves the
\* filesystem as it was.
C8_ConfigFailure == [] C8_ConfigFailureInv /\ [][C8_ConfigFailureStep]_vars

\* A run that returned InvalidTauriConfig where the asset directory did not
\* exist.
C8_Witness ==
  /\ result = "InvalidTauriConfig"
  /\ ~ asset_dir
  /\ skip_dev_tools = "No"

\* In a state: after a failed run a directory that EnsureAssetDir created is
\* there.
C9_NoUndoInv ==
  (result \in Errors /\ Has("create_dir_all")) => asset_dir

\* In a step: nothing done earlier is taken back.
C9_NoUndoStep ==
  /\ asset_dir => asset_dir'
  /\ Len(effects) <= Len(effects')
  /\ effects = SubSeq(effects', 1, Len(effects))
  /\ disk' # disk => pc = "PersistDotCargo"
  /\ result' \in Errors => asset_dir' = asset_dir
  /\ (result' \in Errors /\ pc # "PersistDotCargo") => disk' = disk

\* C9: no step undoes an earlier one: an asset directory that exists keeps
\* existing, the log of effects only grows, the override file changes only
\* in PersistDotCargo, and the step in which a run returns an error leaves
\* the asset directory as it is and, unless it is the write itself, the file
\* too; so after a failed run a directory that EnsureAssetDir created is
\* there.
C9_NoRollback == [] C9_NoUndoInv /\ [][C9_NoUndoStep]_vars

\* A run that created the asset directory and then failed to load the store.
C9_Witness ==
  /\ result = "DotCargoLoad"
  /\ Has("create_dir_all")
  /\ asset_dir

\* C10: the store is loaded, set and written at most once each.  When
\* platform delegation starts the store is the loaded one with only its
\* default target set, to the host triple; load and set precede every
\* platform call.  A write comes after platform delegation and its calls,
\* and never in a run that returned a platform error, which leaves the file
\* as it was.
C10_StoreLifecycle ==
  /\ Count("dot_cargo_load") <= 1
  /\ Count("set_default_target") <= 1
  /\ Count("dot_cargo_write") <= 1
  /\ (pc = "PlatformDelegation" \/ Executed("PlatformDelegation")) =>
       /\ Count("dot_cargo_load") = 1
       /\ Count("set_default_target") = 1
       /\ Before("dot_cargo_load", "set_default_target")
       /\ host_triple \in HostTriples
       /\ dot_cargo.build_target = host_triple
  /\ pc = "PlatformDelegation" =>
       dot_cargo = SetDefaultTarget(DotCargoLoad(disk0), host_triple)
  /\ \A e \in {"android_env_new", "android_gen", "action_request", "ios_gen"} :
       /\ Before("dot_cargo_load", e)
       /\ Before("set_default_target", e)
       /\ Before(e, "dot_cargo_write")
  /\ Has("dot_cargo_write") =>
       /\ Executed("PersistDotCargo")
       /\ result \notin PlatformErrors
       /\ disk = DotCargoWrite(dot_cargo)
  /\ ~ Executed("PersistDotCargo") => disk = disk0
  /\ result \in PlatformErrors =>
       (~ Has("dot_cargo_write") /\ ~ Executed("PersistDotCargo"))

\* A run whose Android generator changed the store in memory and then
\* failed: nothing was written.
C10_Witness ==
  /\ result = "AndroidInit"
  /\ dot_cargo.targets # disk0.store.targets
  /\ disk = disk0

GuardedEvents == { i \in 1..Len(clog) : clog[i].step \in GuardedSteps }

\* C11: of the invocations started concurrently in one process at most one
\* is at a statement from DeriveFacets onward, and it holds the guard; in
\* the order of execution such statements of one invocation are never
\* followed by those of another before the first has returned.
C11_OneRunAtATime ==
  /\ \A p, q \in Procs :
       (cpc[p] \in GuardedSteps /\ cpc[q] \in GuardedSteps) => p = q
  /\ \A p \in Procs : cpc[p] \in GuardedSteps <=> lock = p
  /\ \A i, j \in GuardedEvents :
       (i < j /\ clog[i].proc # clog[j].proc) => cpc[clog[i].proc] = "done"

\* Two invocations that both ran their guarded statements, one after the
\* other.
C11_Witness ==
  /\ \A p \in Procs : cpc[p] = "done"
  /\ \E i, j \in GuardedEvents :
       /\ clog[i].proc # clog[j].proc
       /\ clog[i].step = "Report"
       /\ clog[j].step = "Report"

\* In a step: the asset directory step of a run that finds the directory
\* (and so of every run after one that got past the step) creates nothing
\* and returns no error.
C12_EnsureStep ==
  (pc = "EnsureAssetDir" /\ (asset_dir \/ ensured)) =>
    /\ result' = "running"
    /\ pc' = "OptionalDebuggerExtensionInstall"
    /\ asset_dir' = asset_dir
    /\ effects' = effects

\* In a state: once a run got past its asset directory step the directory
\* exists, and a run that found the directory did not return
\* AssetDirCreation.
C12_EnsureInv ==
  /\ ensured => asset_dir
  /\ (asset_dir /\ ~ Has("create_dir_all")) => result # "AssetDirCreation"

\* C12: once a run got past its asset directory step the directory exists,
\* and the asset directory step of a later run over the same configuration,
\* as of any run that finds the directory, creates nothing, leaves the
\* directory as it is and does not return AssetDirCreation.
C12_EnsureIdempotent == [] C12_EnsureInv /\ [][C12_EnsureStep]_vars

\* A second run, after one that created the directory, past its asset
\* directory step.
C12_Witness ==
  /\ runs = 2
  /\ ensured
  /\ Executed("EnsureAssetDir")
  /\ asset_dir
  /\ ~ Has("create_dir_all")

\* C13: in a run started by command, the run is non-interactive whenever
\* the CI environment variable is set, whatever the ci option; it is
\* interactive only when the ci option is false and CI is unset.
C13_CiForcesNonInteractive ==
  entry = "command" =>
    /\ ci_env # "unset" => non_interactive = "Yes"
    /\ non_interactive = "No" => (~ ci_option /\ ci_env = "unset")

(***************************************************************************)
(* Vocabulary of the helper properties.                                    *)
(***************************************************************************)
Calls(n) == Len(h_hist) = n
Called(i, name) == i <= Len(h_hist) /\ h_hist[i].name = name
Ok(i) == h_hist[i].wrote /\ h_hist[i].err = "none"
\* Call i returned the error err and wrote nothing.
FailedWith(i, err) ==
  /\ h_hist[i].err = err
  /\ ~ h_hist[i].wrote
  /\ h_hist[i].out = << >>
\* The parts of a path between separators that name something.
NamedParts(t) == SelectSeq(SplitParts(t), LAMBDA x : x \notin { << >>, <<".">> })
Traverses(t) == \E i \in 1..Len(SplitParts(t)) : SplitParts(t)[i] = <<".", ".">>
\* A relative path that stays under the directory it is joined to.
RelativeInside(t) == ~ HasRoot(t) /\ ~ Traverses(t)
StartsWithDot(t) == Len(t) > 0 /\ t[1] = "." /\ (Len(t) = 1 \/ t[2] = "/")
EndsWithSepOrDot(t) ==
  /\ Len(t) > 0
  /\ \/ t[Len(t)] = "/"
     \/ t = <<".">>
     \/ (Len(t) > 1 /\ t[Len(t)] = "." /\ t[Len(t) - 1] = "/")
\* unprefix-path was rendered on what prefix-path wrote for a relative path
\* inside the root.
RoundTrip ==
  /\ Calls(2)
  /\ Called(1, "prefix-path")
  /\ Called(2, "unprefix-path")
  /\ h_ctx.kind = "ok"
  /\ h_hist[1].param.kind = "string"
  /\ RelativeInside(h_hist[1].param.str)

MissingContextField == {"app_missing", "root_dir_missing", "root_dir_not_str"}
\* The root mark of a path followed by its named parts.
RootAndNamedParts(t) ==
  (IF HasRoot(t) THEN << <<"/">> >> ELSE << >>) \o NamedParts(t)
\* p is lexically under root: the root mark and named parts of root begin
\* those of p.
LexicallyUnder(p, root) == IsPrefix(RootAndNamedParts(root), RootAndNamedParts(p))
PathHelpers == {"prefix-path", "unprefix-path"}

\* C15: unprefix-path returns the not-in-app-root error for every path that
\* is not lexically under app.root-dir; prefix-path and unprefix-path return
\* the missing-context-field error of the case when app is absent, when
\* app.root-dir is absent and when app.root-dir is not a string; a call that
\* fails in one of these ways writes nothing.
C15_PathHelperErrors ==
  \A i \in 1..Len(h_hist) :
    /\ (h_hist[i].name \in PathHelpers /\ h_ctx.kind # "ok") =>
         (h_ctx.kind \in MissingContextField /\ FailedWith(i, h_ctx.kind))
    /\ ( /\ h_hist[i].name = "unprefix-path"
         /\ h_ctx.kind = "ok"
         /\ ~ LexicallyUnder(GetStr(h_hist[i].param), h_ctx.root) ) =>
         FailedWith(i, "not_in_app_root")

\* unprefix-path was rendered on /aa under the root /a, and failed.
C15_Witness ==
  /\ Calls(1)
  /\ Called(1, "unprefix-path")
  /\ h_ctx = [kind |-> "ok", root |-> <<"/", "a">>]
  /\ h_hist[1].param = StrParam(<<"/", "a", "a">>)
  /\ FailedWith(1, "not_in_app_root")
ArrayHelpers == {"join", "quote-and-join", "quote-and-join-colon-prefix"}
\* The error each array helper returns when it is not given an array.
NotArrayError(name) ==
  CASE name = "join" -> "join_not_array"
    [] name = "quote-and-join" -> "quote_and_join_not_array"
    [] name = "quote-and-join-colon-prefix" -> "quote_and_join_colon_prefix_not_array"
\* The text cut at every ", ".
RECURSIVE SplitCommaSpace(_)
SplitCommaSpace(t) ==
  LET cuts == { i \in 1..(Len(t) - 1) : t[i] = "," /\ t[i + 1] = " " }
      i == CHOOSE c \in cuts : \A d \in cuts : c <= d
  IN  IF cuts = { } THEN << t >>
      ELSE << SubSeq(t, 1, i - 1) >> \o SplitCommaSpace(SubSeq(t, i + 2, Len(t)))
\* The text with every backslash escape replaced by the character escaped.
RECURSIVE Unescape(_)
Unescape(t) ==
  IF t = << >> THEN << >>
  ELSE IF t[1] = "\\" /\ Len(t) >= 2
       THEN << t[2] >> \o Unescape(SubSeq(t, 3, Len(t)))
       ELSE << t[1] >> \o Unescape(Tail(t))
\* item is s in double quotes, with every double quote and backslash of s
\* escaped by a backslash and nothing else escaped.
IsQuoted(item, s) ==
  /\ Len(item) >= 2
  /\ item[1] = "\"" /\ item[Len(item)] = "\""
  /\ Unescape(SubSeq(item, 2, Len(item) - 1)) = s
  /\ Len(item) = 2 + Len(s) + Cardinality({ k \in 1..Len(s) : s[k] \in {"\"", "\\"} })
\* item is what the helper name writes for the element s.
WritesElement(name, item, s) ==
  CASE name = "join" -> item = s
    [] name = "quote-and-join" -> IsQuoted(item, s)
    [] name = "quote-and-join-colon-prefix" -> IsQuoted(item, <<":">> \o s)
ArrayOfStrings(param) ==
  param.kind = "array" /\ \A k \in 1..Len(param.arr) : param.arr[k].is_str

\* C16: join, quote-and-join and quote-and-join-colon-prefix return their
\* not-an-array error, writing nothing, when the parameter is a string, a
\* number or absent; given an array of strings they write the elements, in
\* order and separated by ", ", each unchanged, quoted, or prefixed with a
\* colon and then quoted.
C16_ArrayHelpers ==
  \A i \in 1..Len(h_hist) :
    LET name == h_hist[i].name
        param == h_hist[i].param
        items == SplitCommaSpace(h_hist[i].out)
    IN  name \in ArrayHelpers =>
          /\ param.kind \in {"string", "number", "missing"} =>
               FailedWith(i, NotArrayError(name))
          /\ (ArrayOfStrings(param) /\ param.arr # << >>) =>
               /\ Ok(i)
               /\ Len(items) = Len(param.arr)
               /\ \A k \in 1..Len(items) :
                    WritesElement(name, items[k], param.arr[k].s)

\* quote-and-join-colon-prefix was rendered on an array of two strings with
\* a backslash and a double quote in them.
C16_Witness ==
  /\ Calls(1)
  /\ Called(1, "quote-and-join-colon-prefix")
  /\ h_hist[1].param = ArrParam(<< StrElem(<<"a", "\\">>), StrElem(<<"\"">>) >>)
  /\ h_hist[1].out = <<"\"", ":", "a", "\\", "\\", "\"", ",", " ",
                       "\"", ":", "\\", "\"", "\"">>

\* C20: given an array with an element that is not a string, join,
\* quote-and-join and quote-and-join-colon-prefix return the same
\* not-an-array error as for a parameter that is no array and write nothing;
\* given an empty array they write the empty string and return no error.
C20_AllOrNothing ==
  \A i \in 1..Len(h_hist) :
    LET name == h_hist[i].name
        param == h_hist[i].param
    IN  (name \in ArrayHelpers /\ param.kind = "array") =>
          /\ (\E k \in 1..Len(param.arr) : ~ param.arr[k].is_str) =>
               FailedWith(i, NotArrayError(name))
          /\ param.arr = << >> =>
               (Ok(i) /\ h_hist[i].out = << >>)

\* join was rendered on an array of a string and a value that is no string.
C20_Witness ==
  /\ Calls(1)
  /\ Called(1, "join")
  /\ h_hist[1].param = ArrParam(<< StrElem(<<"a">>), NonStrElem >>)
  /\ FailedWith(1, "join_not_array")
\* The run got to the platform delegation step.
ReachedPlatformDelegation ==
  pc = "PlatformDelegation" \/ Executed("PlatformDelegation")

\* C17: in every run that reaches platform delegation the template context
\* binds "tauri-binary" to a non-empty string, the first argument of the
\* process or "cargo" when there is none, and has the keys "app" and
\* "android".
C17_TemplateContext ==
  ReachedPlatformDelegation =>
    /\ map["tauri-binary"] \notin {"absent", ""}
    /\ map["tauri-binary"] = (IF argv0 = "none" THEN "cargo" ELSE argv0)
    /\ map["app"] # "absent"
    /\ map["android"] # "absent"
C19_PresenceErrorIsAbsent ==
  code_query = "error" =>
    /\ ~ Spawned
    /\ code_exit = "none"
    /\ result # "LldbExtensionInstall"
    /\ pc = "LoadDotCargo" \/ Executed("LoadDotCargo")

\* The query returned an error in a run that does not skip the dev tools,
\* and the run went on through LoadDotCargo.
C19_Witness ==
  /\ code_query = "error"
  /\ skip_dev_tools = "No"
  /\ Executed("OptionalDebuggerExtensionInstall")
  /\ Executed("LoadDotCargo")
  /\ ~ Spawned
====
